---- MODULE Spec2Model ----
(***************************************************************************)
(* Model of the embedding ingestion pipeline and vector stores of          *)
(* fashion_image_processor:                                                *)
(*   - the bulk handler generate_embeddings_old (page partitioning),       *)
(*   - FAISSService (in-memory index + two files on disk),                 *)
(*   - RedisService / QdrantService and delete_single_embedding_task,      *)
(*   - the similarity queries of FAISSService and of main.py,              *)
(*   - ApiClient (retried requests, response cache),                       *)
(*   - EmbeddingService.process_all_pages and                              *)
(*     generate_embeddings_for_products,                                   *)
(*   - the single-item tasks and the time limits of the Celery worker.     *)
(***************************************************************************)
EXTENDS Integers, Sequences, FiniteSets, TLC

(***************************************************************************)
(* Bounds                                                                  *)
(***************************************************************************)
MaxPages == 5          \* largest last_page the catalog reports
MaxCap == 5            \* largest MAX_PAGES_OVERALL value tried
MaxConcurrency == 3    \* largest CELERY_WORKER_CONCURRENCY value tried
Dimension == 2         \* embedding size D of the model (2048 in the program)
MaxValue == 2          \* vector components are 1..MaxValue before conversion
MaxId == 2             \* product ids are 1..MaxId
MaxEntries == 3        \* most vectors one index holds
MaxBatch == 2          \* longest batch given to save_embeddings_batch
NumWorkers == 2        \* FAISSService instances (processes) sharing data/faiss
MaxTopN == 2           \* largest top_n a caller asks for
MaxTime == 3           \* the clock counts 0..MaxTime
CacheTtl == 2          \* _cache_ttl in clock ticks (300 s in the program)

(***************************************************************************)
(* Program constants                                                       *)
(***************************************************************************)
DefaultTargetTasks == 4

None == -1             \* Python None for an optional non-negative integer

\* Vector components are integers that count halves of the float32 spacing:
\* even numbers are the values float32 can hold, odd ones are float64 values
\* between two of them.
F32Spacing == 2

\* score thresholds are counted in tenths: 7 is the default 0.7
Tenths == 10

\* stop_after_attempt(3) of the retry decorator of _make_request
StopAfterAttempt == 3

Ids == 1..MaxId
Values == 1..MaxValue
Workers == 1..NumWorkers

(***************************************************************************)
(* Helpers                                                                 *)
(***************************************************************************)
Min(a, b) == IF a <= b THEN a ELSE b

Range(s) == {s[k] : k \in 1..Len(s)}

\* math.ceil(a / b) for a >= 0, b > 0
CeilDiv(a, b) == (a + b - 1) \div b

VARIABLES
    \* ---- generate_embeddings_old ----
    hpc,                            \* position of the handler
    start_page,                     \* request parameter (effective_start_page)
    max_pages_to_process_overall,   \* parsed MAX_PAGES_OVERALL, or None
    num_target_tasks,               \* parsed CELERY_WORKER_CONCURRENCY or 4
    total_api_pages,                \* meta['last_page'] of page 1
    num_pages_to_actually_process,
    actual_num_dispatch_tasks,
    pages_per_task,
    i,                              \* loop index of the dispatch loop
    chunk_start_page,
    num_pages_for_this_chunk,
    page,                           \* next page of the current chunk
    all_product_ids,                \* number of product ids collected for the chunk
    task_ids,                       \* ids of the dispatched Celery tasks
    page_requests,                  \* pages passed to api_client.get_products, in order
    units,                          \* (start_page, page_count) of every chunk built
    response,                       \* what the handler returned / raised
    \* ---- FAISSService: one instance per worker, files shared ----
    fpc,                            \* position of each instance
    index,                          \* self.index: the vectors, in insertion order
    product_ids,                    \* self.product_ids
    pending,                        \* the call each instance is executing
    index_file,                     \* data/faiss/index.faiss
    ids_file,                       \* data/faiss/product_ids.json
    \* ---- RedisService / QdrantService ----
    redis,                          \* key embedding:<id> -> stored embedding
    qdrant,                         \* point id -> stored vector
    \* ---- callers ----
    ret,                            \* the call that returned last, with its result
    acked,                          \* ids whose FAISS save returned True (and no delete since)
    \* ---- similarity queries ----
    search,                         \* the query being answered, with its answer
    \* ---- ApiClient ----
    request,                        \* the get_products / get_product_image call in progress
    cache,                          \* self._cache: url -> (cache_time, cache_data)
    now,                            \* time.time()
    sent,                           \* session.request calls of the _make_request in progress
    \* ---- EmbeddingService ----
    ingest,                         \* the locals of process_all_pages
    soft_limit,                     \* task_soft_time_limit of the task running it
    gen                             \* the locals of generate_embeddings_for_products

bulkVars == <<hpc, start_page, max_pages_to_process_overall, num_target_tasks,
              total_api_pages, num_pages_to_actually_process,
              actual_num_dispatch_tasks, pages_per_task, i, chunk_start_page,
              num_pages_for_this_chunk, page, all_product_ids, task_ids,
              page_requests, units, response>>

faissVars == <<fpc, index, product_ids, pending, index_file, ids_file>>

storeVars == <<redis, qdrant>>

searchVars == <<search>>

apiVars == <<request, cache, now, sent>>

ingestVars == <<ingest, soft_limit>>

genVars == <<gen>>

serviceVars == <<searchVars, apiVars, ingestVars, genVars>>

vars == <<bulkVars, faissVars, storeVars, ret, acked, serviceVars>>

(***************************************************************************)
(* generate_embeddings_old                                                 *)
(***************************************************************************)
NoResponse ==
    [status |-> 0, no_work |-> FALSE, task_ids |-> <<>>,
     actual_tasks_dispatched |-> 0, pages_per_task_approx |-> 0]

ErrorResponse(code) ==
    [status |-> code, no_work |-> FALSE, task_ids |-> <<>>,
     actual_tasks_dispatched |-> 0, pages_per_task_approx |-> 0]

NoWorkResponse ==
    [status |-> 200, no_work |-> TRUE, task_ids |-> <<>>,
     actual_tasks_dispatched |-> 0, pages_per_task_approx |-> 0]

InitBulk ==
    /\ hpc = "idle"
    /\ start_page = 1
    /\ max_pages_to_process_overall = None
    /\ num_target_tasks = DefaultTargetTasks
    /\ total_api_pages = 0
    /\ num_pages_to_actually_process = 0
    /\ actual_num_dispatch_tasks = 0
    /\ pages_per_task = 0
    /\ i = 0
    /\ chunk_start_page = 0
    /\ num_pages_for_this_chunk = 0
    /\ page = 0
    /\ all_product_ids = 0
    /\ task_ids = <<>>
    /\ page_requests = <<>>
    /\ units = <<>>
    /\ response = NoResponse

\* lines 94-112: request parameters and environment are read
generate_embeddings_old(sp, max_pages_env, concurrency_env) ==
    /\ hpc \in {"idle", "returned", "raised"}
    /\ hpc' = "first_page"
    /\ start_page' = sp
    /\ max_pages_to_process_overall' = max_pages_env
    /\ num_target_tasks' =
           IF concurrency_env > 0 THEN concurrency_env ELSE DefaultTargetTasks
    /\ total_api_pages' = 0
    /\ num_pages_to_actually_process' = 0
    /\ actual_num_dispatch_tasks' = 0
    /\ pages_per_task' = 0
    /\ i' = 0
    /\ chunk_start_page' = 0
    /\ num_pages_for_this_chunk' = 0
    /\ page' = 0
    /\ all_product_ids' = 0
    /\ task_ids' = <<>>
    /\ page_requests' = <<>>
    /\ units' = <<>>
    /\ response' = NoResponse
    /\ UNCHANGED <<faissVars, storeVars, ret, acked, serviceVars>>

UnchangedPlan ==
    /\ UNCHANGED <<start_page, max_pages_to_process_overall, num_target_tasks>>
    /\ UNCHANGED <<faissVars, storeVars, ret, acked, serviceVars>>

UnchangedLoop ==
    UNCHANGED <<num_pages_to_actually_process, actual_num_dispatch_tasks,
                pages_per_task>>

UnchangedChunk ==
    UNCHANGED <<chunk_start_page, num_pages_for_this_chunk, page,
                all_product_ids>>

\* lines 114-120: page 1 is fetched and meta['last_page'] read
FetchFirstPage(last_page) ==
    /\ hpc = "first_page"
    /\ page_requests' = Append(page_requests, 1)
    /\ total_api_pages' = last_page
    /\ hpc' = "plan"
    /\ UnchangedPlan /\ UnchangedLoop /\ UnchangedChunk
    /\ UNCHANGED <<i, task_ids, units, response>>

\* lines 116-123: the request fails or has no meta: HTTPException 502
FetchFirstPageFails ==
    /\ hpc = "first_page"
    /\ page_requests' = Append(page_requests, 1)
    /\ response' = ErrorResponse(502)
    /\ hpc' = "raised"
    /\ UnchangedPlan /\ UnchangedLoop /\ UnchangedChunk
    /\ UNCHANGED <<total_api_pages, i, task_ids, units>>

\* lines 134-139
PagesFromStart == total_api_pages - start_page + 1

NumPagesToActuallyProcess ==
    IF max_pages_to_process_overall # None
    THEN Min(PagesFromStart, max_pages_to_process_overall)
    ELSE PagesFromStart

\* line 127
StartBeyondLastPage == start_page > total_api_pages

\* line 141
NoPagesToProcessStrict(n) == n < 0

NoPagesToProcess(n) == n <= 0

\* lines 148-150
ActualNumDispatchTasks(n) ==
    LET a == Min(num_target_tasks, n)
    IN  IF a <= 0 /\ n > 0 THEN 1 ELSE a

\* line 152
PagesPerTaskFloor(n, a) == n \div a

PagesPerTask(n, a) == CeilDiv(n, a)

\* lines 127-132
ReturnStartBeyondLastPage ==
    /\ hpc = "plan"
    /\ StartBeyondLastPage
    /\ response' = NoWorkResponse
    /\ hpc' = "returned"
    /\ UnchangedPlan /\ UnchangedLoop /\ UnchangedChunk
    /\ UNCHANGED <<total_api_pages, i, task_ids, page_requests, units>>

\* lines 141-146
ReturnNoPagesToProcess ==
    /\ hpc = "plan"
    /\ ~StartBeyondLastPage
    /\ NoPagesToProcess(NumPagesToActuallyProcess)
    /\ num_pages_to_actually_process' = NumPagesToActuallyProcess
    /\ response' = NoWorkResponse
    /\ hpc' = "returned"
    /\ UnchangedPlan /\ UnchangedChunk
    /\ UNCHANGED <<actual_num_dispatch_tasks, pages_per_task>>
    /\ UNCHANGED <<total_api_pages, i, task_ids, page_requests, units>>

\* lines 148-154; math.ceil(n / 0) raises ZeroDivisionError (status 500)
PlanDispatch ==
    /\ hpc = "plan"
    /\ ~StartBeyondLastPage
    /\ ~NoPagesToProcess(NumPagesToActuallyProcess)
    /\ LET n == NumPagesToActuallyProcess
           a == ActualNumDispatchTasks(n)
       IN  /\ num_pages_to_actually_process' = n
           /\ actual_num_dispatch_tasks' = a
           /\ IF a = 0
              THEN /\ pages_per_task' = 0
                   /\ response' = ErrorResponse(500)
                   /\ hpc' = "raised"
              ELSE /\ pages_per_task' = PagesPerTask(n, a)
                   /\ response' = response
                   /\ hpc' = "loop"
    /\ i' = 0
    /\ task_ids' = <<>>
    /\ UnchangedPlan /\ UnchangedChunk
    /\ UNCHANGED <<total_api_pages, page_requests, units>>

\* line 157
ChunkStartPage == start_page + (i * pages_per_task)

\* lines 161-164
NumPagesUnclamped == pages_per_task

NumPagesForThisChunk ==
    Min(Min(pages_per_task, total_api_pages - ChunkStartPage + 1),
        num_pages_to_actually_process - (i * pages_per_task))

\* lines 178-193: the loop is over (range exhausted or break at line 159)
ReturnReport ==
    /\ response' = [status |-> 200, no_work |-> FALSE, task_ids |-> task_ids,
                    actual_tasks_dispatched |-> actual_num_dispatch_tasks,
                    pages_per_task_approx |-> pages_per_task]
    /\ hpc' = "returned"
    /\ UnchangedPlan /\ UnchangedLoop /\ UnchangedChunk
    /\ UNCHANGED <<total_api_pages, i, task_ids, page_requests, units>>

\* line 156: range(actual_num_dispatch_tasks) is exhausted
LoopExhausted ==
    /\ hpc = "loop"
    /\ i >= actual_num_dispatch_tasks
    /\ ReturnReport

\* lines 158-159: break
LoopBreak ==
    /\ hpc = "loop"
    /\ i < actual_num_dispatch_tasks
    /\ ChunkStartPage > total_api_pages
    /\ ReturnReport

\* lines 166-167: continue
LoopContinue ==
    /\ hpc = "loop"
    /\ i < actual_num_dispatch_tasks
    /\ ChunkStartPage <= total_api_pages
    /\ NumPagesForThisChunk <= 0
    /\ i' = i + 1
    /\ chunk_start_page' = ChunkStartPage
    /\ num_pages_for_this_chunk' = NumPagesForThisChunk
    /\ UnchangedPlan /\ UnchangedLoop
    /\ UNCHANGED <<total_api_pages, page, all_product_ids, task_ids,
                   page_requests, units, response, hpc>>

\* lines 157-169: a chunk with at least one page is built
StartChunk ==
    /\ hpc = "loop"
    /\ i < actual_num_dispatch_tasks
    /\ ChunkStartPage <= total_api_pages
    /\ NumPagesForThisChunk > 0
    /\ chunk_start_page' = ChunkStartPage
    /\ num_pages_for_this_chunk' = NumPagesForThisChunk
    /\ page' = ChunkStartPage
    /\ all_product_ids' = 0
    /\ units' = Append(units, [start_page |-> ChunkStartPage,
                               page_count |-> NumPagesForThisChunk])
    /\ hpc' = "fetch"
    /\ UnchangedPlan /\ UnchangedLoop
    /\ UNCHANGED <<total_api_pages, i, task_ids, page_requests, response>>

\* lines 170-172: one page of the chunk is fetched; it holds n_products ids
FetchChunkPage(n_products) ==
    /\ hpc = "fetch"
    /\ page < chunk_start_page + num_pages_for_this_chunk
    /\ page_requests' = Append(page_requests, page)
    /\ all_product_ids' = all_product_ids + n_products
    /\ page' = page + 1
    /\ UnchangedPlan /\ UnchangedLoop
    /\ UNCHANGED <<total_api_pages, i, chunk_start_page,
                   num_pages_for_this_chunk, task_ids, units, response, hpc>>

\* line 171: get_products raises after its retries; nothing catches it
FetchChunkPageFails ==
    /\ hpc = "fetch"
    /\ page < chunk_start_page + num_pages_for_this_chunk
    /\ page_requests' = Append(page_requests, page)
    /\ response' = ErrorResponse(500)
    /\ hpc' = "raised"
    /\ UnchangedPlan /\ UnchangedLoop /\ UnchangedChunk
    /\ UNCHANGED <<total_api_pages, i, task_ids, units>>

\* lines 174-176: the chunk has product ids: one task is dispatched
DispatchChunk ==
    /\ hpc = "fetch"
    /\ page >= chunk_start_page + num_pages_for_this_chunk
    /\ all_product_ids > 0
    /\ task_ids' = Append(task_ids, Len(task_ids) + 1)
    /\ i' = i + 1
    /\ hpc' = "loop"
    /\ UnchangedPlan /\ UnchangedLoop /\ UnchangedChunk
    /\ UNCHANGED <<total_api_pages, page_requests, units, response>>

\* line 174: the chunk has no product id: nothing is dispatched
SkipEmptyChunk ==
    /\ hpc = "fetch"
    /\ page >= chunk_start_page + num_pages_for_this_chunk
    /\ all_product_ids = 0
    /\ i' = i + 1
    /\ hpc' = "loop"
    /\ UnchangedPlan /\ UnchangedLoop /\ UnchangedChunk
    /\ UNCHANGED <<total_api_pages, task_ids, page_requests, units, response>>

NextBulk ==
    \/ \E sp \in 0..(MaxPages + 1), cap \in {None} \cup 0..MaxCap,
          conc \in {None} \cup 0..MaxConcurrency :
          generate_embeddings_old(sp, cap, conc)
    \/ \E last_page \in 0..MaxPages : FetchFirstPage(last_page)
    \/ FetchFirstPageFails
    \/ ReturnStartBeyondLastPage
    \/ ReturnNoPagesToProcess
    \/ PlanDispatch
    \/ LoopExhausted
    \/ LoopBreak
    \/ LoopContinue
    \/ StartChunk
    \/ \E n_products \in 0..1 : FetchChunkPage(n_products)
    \/ FetchChunkPageFails
    \/ DispatchChunk
    \/ SkipEmptyChunk

(***************************************************************************)
(* Calls and their results                                                 *)
(***************************************************************************)
\* op: the operation; w: the FAISSService instance (0: none); ids, embs: the
\* arguments; result: the value returned; existed: how many entries the first
\* id had in the store(s) of the operation when it was called.
Call(op, w, ids, embs, result, existed) ==
    [op |-> op, w |-> w, ids |-> ids, embs |-> embs, result |-> result,
     existed |-> existed]

NoCall == Call("none", 0, <<>>, <<>>, FALSE, 0)

NoFile == [exists |-> FALSE, data |-> <<>>]

File(data) == [exists |-> TRUE, data |-> data]

NoEmbedding == [found |-> FALSE, vector |-> <<>>]

Embedding(v) == [found |-> TRUE, vector |-> v]

\* sequences over S of length lo..hi
SeqsOfLen(S, lo, hi) == UNION {[1..n -> S] : n \in lo..hi}

\* a vector one component too short, and one too long
ShortEmbedding == [k \in 1..(Dimension - 1) |-> MaxValue]

LongEmbedding == [k \in 1..(Dimension + 1) |-> MaxValue]

\* the embeddings a caller may pass: every vector of the right length, and
\* the two of a wrong length
Embeddings == [1..Dimension -> Values] \cup {ShortEmbedding, LongEmbedding}

\* the rows a caller may put in a batch
BatchRows == {[k \in 1..Dimension |-> MaxValue], ShortEmbedding, LongEmbedding}

\* the embedding the model computes for the image of a product
ImageEmbedding(pid) == [k \in 1..Dimension |-> F32Spacing]

(***************************************************************************)
(* FAISSService                                                            *)
(***************************************************************************)
\* np.array(embedding, dtype=np.float32), faiss_service.py line 48 / 167
Float32(x) == x - (x % F32Spacing)

Float32Vec(v) == [k \in 1..Len(v) |-> Float32(v[k])]

\* list.index(x): position of the first element equal to x (0: ValueError)
ListIndex(s, x) ==
    IF x \in Range(s)
    THEN CHOOSE k \in 1..Len(s) : s[k] = x /\ \A j \in 1..(k-1) : s[j] # x
    ELSE 0

\* get_embedding, lines 64-83, on an index idx with id list pids;
\* index.reconstruct raises for a position the index does not hold
get_embedding(idx, pids, product_id) ==
    IF product_id \notin Range(pids)
    THEN NoEmbedding
    ELSE LET k == ListIndex(pids, product_id)
         IN  IF k > Len(idx) THEN NoEmbedding ELSE Embedding(idx[k])

\* line 199
KeepIndicesFirstOnly(pids, product_id) ==
    LET first == ListIndex(pids, product_id)
    IN  SelectSeq([k \in 1..Len(pids) |-> k], LAMBDA k : k # first)

KeepIndices(pids, product_id) ==
    SelectSeq([k \in 1..Len(pids) |-> k], LAMBDA k : pids[k] # product_id)

\* how many vectors the instance holds for an id
CountEntries(pids, product_id) ==
    Cardinality({k \in 1..Len(pids) : pids[k] = product_id})

\* the vectors stored for an id, in index order
EntriesOf(idx, pids, product_id) ==
    LET ks == SelectSeq([k \in 1..Len(pids) |-> k],
                        LAMBDA k : pids[k] = product_id /\ k <= Len(idx))
    IN  [j \in 1..Len(ks) |-> idx[ks[j]]]

InitStores ==
    /\ fpc = [w \in Workers |-> "none"]
    /\ index = [w \in Workers |-> <<>>]
    /\ product_ids = [w \in Workers |-> <<>>]
    /\ pending = [w \in Workers |-> NoCall]
    /\ index_file = NoFile
    /\ ids_file = NoFile
    /\ redis = [p \in Ids |-> NoEmbedding]
    /\ qdrant = [p \in Ids |-> NoEmbedding]
    /\ ret = NoCall
    /\ acked = {}

\* op: the operation; product_id: the id asked about (None: a vector query);
\* found: get_embedding returned a vector for product_id; requested: the
\* number of results asked from the index (None: the index was not asked);
\* fetched: what the index returned; results: the list returned to the
\* caller; error: the endpoint answered {"error": ...}
Search(op, product_id, embedding, top_n, score_threshold, found, requested, fetched, results, error) ==
    [op |-> op, product_id |-> product_id, embedding |-> embedding,
     top_n |-> top_n, score_threshold |-> score_threshold, found |-> found,
     requested |-> requested, fetched |-> fetched, results |-> results,
     error |-> error]

NoSearch == Search("none", None, <<>>, 0, 0, FALSE, None, <<>>, <<>>, FALSE)

\* the urls the model requests: page 1 of the products, and each product
Urls == {<<"products?page=", 1>>} \cup {<<"products/", p>> : p \in Ids}

\* the JSON of a response: the url it answers, when it was received, and
\* whether its data holds an image_url
Response(url, received, image_url) ==
    [url |-> url, received |-> received, image_url |-> image_url]

NoResponseData == Response(<<>>, None, FALSE)

NoCacheEntry == [cached |-> FALSE, cache_time |-> 0, cache_data |-> NoResponseData]

CacheEntry(cache_time, cache_data) ==
    [cached |-> TRUE, cache_time |-> cache_time, cache_data |-> cache_data]

\* op: get_products or get_product_image; pc: where the call is;
\* attempt_number: how often the body of _make_request has run; failures: how
\* many of these runs raised; made: how _make_request ended; data: what it
\* returned; result: what the operation returned to its caller
Request(op, url, pc, attempt_number, failures, made, data, result) ==
    [op |-> op, url |-> url, pc |-> pc, attempt_number |-> attempt_number,
     failures |-> failures, made |-> made, data |-> data, result |-> result]

NoRequest == Request("none", <<>>, "idle", 0, 0, "none", NoResponseData, "none")

NoReport == [total_pages_processed |-> None, total_products_processed |-> None]

\* the arguments and locals of process_all_pages (lines 99-126), the last
\* non-empty page of the catalog, the position of the for loop (batch_i) and
\* the returned report
Ingest(pc, sp, max_pages, batch_size, last_page, total_products, total_pages, current_page, has_more_pages, append_mode, batch_pages_processed, batch_products_processed, batch_i, report) ==
    [pc |-> pc, start_page |-> sp, max_pages |-> max_pages,
     batch_size |-> batch_size, last_page |-> last_page,
     total_products |-> total_products, total_pages |-> total_pages,
     current_page |-> current_page, has_more_pages |-> has_more_pages,
     append_mode |-> append_mode,
     batch_pages_processed |-> batch_pages_processed,
     batch_products_processed |-> batch_products_processed,
     batch_i |-> batch_i, report |-> report]

\* whether SoftTimeLimitExceeded was raised in the running task, and how many
\* pages the run had processed then
NoSoftLimit == [fired |-> FALSE, pages_done |-> 0]

NoIngest == Ingest("idle", 1, None, 1, 0, 0, 0, 1, TRUE, FALSE, 0, 0, 0, NoReport)

\* the argument and locals of generate_embeddings_for_products (lines
\* 50-71); errors: the ids line 80 reported; rows: the (id, embedding) rows
\* of the returned DataFrame
Generation(pc, pids, embeddings, ids, errors, rows) ==
    [pc |-> pc, product_ids |-> pids, embeddings |-> embeddings, ids |-> ids,
     errors |-> errors, rows |-> rows]

NoGeneration == Generation("idle", <<>>, <<>>, <<>>, <<>>, <<>>)

InitServices ==
    /\ gen = NoGeneration
    /\ ingest = NoIngest
    /\ soft_limit = NoSoftLimit
    /\ search = NoSearch
    /\ request = NoRequest
    /\ cache = [url \in Urls |-> NoCacheEntry]
    /\ now = 0
    /\ sent = 0

Init == InitBulk /\ InitStores /\ InitServices

UnchangedOutsideFaiss == UNCHANGED <<bulkVars, storeVars, serviceVars>>

\* __init__, lines 14-29, up to the first read of load_index (lines 263-268):
\* a new instance starts empty and, when both files exist, reads index.faiss
FAISSService(w) ==
    /\ fpc[w] \in {"none", "idle"}
    /\ product_ids' = [product_ids EXCEPT ![w] = <<>>]
    /\ IF index_file.exists /\ ids_file.exists
       THEN /\ index' = [index EXCEPT ![w] = index_file.data]
            /\ fpc' = [fpc EXCEPT ![w] = "load_ids"]
       ELSE /\ index' = [index EXCEPT ![w] = <<>>]
            /\ fpc' = [fpc EXCEPT ![w] = "idle"]
    /\ pending' = [pending EXCEPT ![w] = NoCall]
    /\ UNCHANGED <<index_file, ids_file, ret, acked>>
    /\ UnchangedOutsideFaiss

\* load_index, lines 270-272: product_ids.json is read
LoadProductIdsNotRead(w) ==
    /\ fpc[w] = "load_ids"
    /\ fpc' = [fpc EXCEPT ![w] = "idle"]
    /\ UNCHANGED <<index, product_ids, pending, index_file, ids_file, ret, acked>>
    /\ UnchangedOutsideFaiss

LoadProductIds(w) ==
    /\ fpc[w] = "load_ids"
    /\ product_ids' = [product_ids EXCEPT ![w] = ids_file.data]
    /\ fpc' = [fpc EXCEPT ![w] = "idle"]
    /\ UNCHANGED <<index, pending, index_file, ids_file, ret, acked>>
    /\ UnchangedOutsideFaiss

\* the call returns at once, leaving the instance as it was
ReturnNow(call) ==
    /\ ret' = call
    /\ UNCHANGED <<fpc, index, product_ids, pending, index_file, ids_file, acked>>

\* the in-memory index is replaced and save_index begins
BeginSaveIndex(w, new_index, new_product_ids, call) ==
    /\ index' = [index EXCEPT ![w] = new_index]
    /\ product_ids' = [product_ids EXCEPT ![w] = new_product_ids]
    /\ pending' = [pending EXCEPT ![w] = call]
    /\ fpc' = [fpc EXCEPT ![w] = "write_index"]
    /\ UNCHANGED <<index_file, ids_file, ret, acked>>

\* save_embedding, lines 31-62, up to the call of save_index
save_embedding(w, product_id, embedding) ==
    /\ fpc[w] = "idle"
    /\ Len(index[w]) < MaxEntries
    /\ Len(product_ids[w]) < MaxEntries
    /\ LET call(result) ==
               Call("save_embedding", w, <<product_id>>, <<embedding>>, result,
                    CountEntries(product_ids[w], product_id))
       IN  IF Len(embedding) # Dimension
           THEN ReturnNow(call(FALSE))
           ELSE BeginSaveIndex(w, Append(index[w], Float32Vec(embedding)),
                               Append(product_ids[w], product_id), call(TRUE))
    /\ UnchangedOutsideFaiss

\* np.array(embeddings, dtype=np.float32) followed by index.add, lines 166-170:
\* rows of unequal length have no array, rows of another length than the
\* dimension are refused by the index
BatchAccepted(embeddings) ==
    \A k \in 1..Len(embeddings) : Len(embeddings[k]) = Dimension

\* save_embeddings_batch, lines 150-181, up to the call of save_index
save_embeddings_batch(w, pids, embeddings) ==
    /\ fpc[w] = "idle"
    /\ Len(index[w]) + Len(pids) <= MaxEntries
    /\ Len(product_ids[w]) + Len(pids) <= MaxEntries
    /\ LET call(result) ==
               Call("save_embeddings_batch", w, pids, embeddings, result,
                    IF pids = <<>> THEN 0
                    ELSE CountEntries(product_ids[w], pids[1]))
       IN  IF Len(pids) = 0 \/ Len(pids) # Len(embeddings)
           THEN ReturnNow(call(FALSE))
           ELSE IF ~BatchAccepted(embeddings)
           THEN ReturnNow(call(FALSE))
           ELSE BeginSaveIndex(w,
                    index[w] \o [k \in 1..Len(embeddings) |-> Float32Vec(embeddings[k])],
                    product_ids[w] \o pids, call(TRUE))
    /\ UnchangedOutsideFaiss

\* delete_embedding, lines 183-220, up to the call of save_index
delete_embedding(w, product_id) ==
    /\ fpc[w] = "idle"
    /\ LET call(result) ==
               Call("delete_embedding", w, <<product_id>>, <<>>, result,
                    CountEntries(product_ids[w], product_id))
           keep_indices == KeepIndices(product_ids[w], product_id)
       IN  IF product_id \notin Range(product_ids[w])
           THEN ReturnNow(call(FALSE))
           ELSE IF \E j \in 1..Len(keep_indices) : keep_indices[j] > Len(index[w])
           THEN ReturnNow(call(FALSE))      \* reconstruct raises, line 207
           ELSE BeginSaveIndex(w,
                    [j \in 1..Len(keep_indices) |-> index[w][keep_indices[j]]],
                    [j \in 1..Len(keep_indices) |-> product_ids[w][keep_indices[j]]],
                    call(TRUE))
    /\ UnchangedOutsideFaiss

\* save_index, line 247: index.faiss is rewritten from the instance's index
WriteIndexFile(w) ==
    /\ fpc[w] = "write_index"
    /\ index_file' = File(index[w])
    /\ fpc' = [fpc EXCEPT ![w] = "write_ids"]
    /\ UNCHANGED <<index, product_ids, pending, ids_file, ret, acked>>
    /\ UnchangedOutsideFaiss

\* save_index, lines 250-251, and the return of the operation that saved
WriteProductIdsFile(w) ==
    /\ fpc[w] = "write_ids"
    /\ ids_file' = File(product_ids[w])
    /\ fpc' = [fpc EXCEPT ![w] = "idle"]
    /\ ret' = pending[w]
    /\ acked' = IF pending[w].op = "delete_embedding"
                THEN acked \ Range(pending[w].ids)
                ELSE acked \cup Range(pending[w].ids)
    /\ pending' = [pending EXCEPT ![w] = NoCall]
    /\ UNCHANGED <<index, product_ids, index_file>>
    /\ UnchangedOutsideFaiss

\* the operation that called save_index returns True (lines 57-58, 176-177,
\* 215-216), whatever save_index did
ReturnFromSaveIndex(w) ==
    /\ fpc' = [fpc EXCEPT ![w] = "idle"]
    /\ ret' = pending[w]
    /\ acked' = IF pending[w].op = "delete_embedding"
                THEN acked \ Range(pending[w].ids)
                ELSE acked \cup Range(pending[w].ids)
    /\ pending' = [pending EXCEPT ![w] = NoCall]
    /\ UNCHANGED <<index, product_ids>>

\* save_index, lines 245-258: faiss.write_index raises (the file cannot be
\* opened for writing); the except of line 255 logs the error, product_ids.json
\* is not written either, and save_index returns normally
WriteIndexFileFails(w) ==
    /\ fpc[w] = "write_index"
    /\ ReturnFromSaveIndex(w)
    /\ UNCHANGED <<index_file, ids_file>>
    /\ UnchangedOutsideFaiss

\* save_index, lines 250-258: index.faiss was written and opening
\* product_ids.json for writing raises; the except of line 255 logs the error
WriteProductIdsFileFails(w) ==
    /\ fpc[w] = "write_ids"
    /\ ReturnFromSaveIndex(w)
    /\ UNCHANGED <<index_file, ids_file>>
    /\ UnchangedOutsideFaiss

\* the worker process dies inside save_index, after line 247 and before
\* line 250; its memory is gone, the files stay as they are
WorkerDies(w) ==
    /\ fpc[w] = "write_ids"
    /\ fpc' = [fpc EXCEPT ![w] = "none"]
    /\ index' = [index EXCEPT ![w] = <<>>]
    /\ product_ids' = [product_ids EXCEPT ![w] = <<>>]
    /\ pending' = [pending EXCEPT ![w] = NoCall]
    /\ UNCHANGED <<index_file, ids_file, ret, acked>>
    /\ UnchangedOutsideFaiss

\* main.py lines 127-132: a new FAISSService loads the files, then get_embedding
check_embedding(product_id) ==
    IF index_file.exists /\ ids_file.exists
    THEN get_embedding(index_file.data, ids_file.data, product_id).found
    ELSE FALSE

(***************************************************************************)
(* Similarity queries: FAISSService.find_similar_*, main.py endpoints      *)
(***************************************************************************)
\* the thresholds a caller may pass: the default of the GET endpoint, the
\* default of FAISSService, and one no score reaches
Thresholds == {1, 7, Tenths + 1}

\* the vectors stored and asked about in the queries: those with equal
\* components, and one with a larger first component
SearchEmbeddings ==
    {[k \in 1..Dimension |-> v] : v \in Values}
        \cup {[k \in 1..Dimension |-> IF k = 1 THEN MaxValue ELSE 1]}

RECURSIVE SquaredDistanceUpTo(_, _, _)
SquaredDistanceUpTo(a, b, n) ==
    IF n = 0 THEN 0
    ELSE (a[n] - b[n]) * (a[n] - b[n]) + SquaredDistanceUpTo(a, b, n - 1)

\* the distance of IndexFlatL2: the squared Euclidean distance
L2Distance(a, b) == SquaredDistanceUpTo(a, b, Len(a))

\* index.search(embedding, k), line 104: the labels of the k nearest vectors,
\* nearest first, filled with -1 when the index holds fewer than k. FAISS
\* does not promise an order among vectors at the same distance: tie says
\* whether the one added first or the one added last comes first
IndexSearch(idx, embedding, k, tie) ==
    LET n == Len(idx)
        dist(p) == L2Distance(idx[p], embedding)
        Before(p1, p2) ==
            \/ dist(p1) < dist(p2)
            \/ dist(p1) = dist(p2) /\ (IF tie = "first" THEN p1 < p2 ELSE p1 > p2)
        rank(p) == 1 + Cardinality({p2 \in 1..n : Before(p2, p)})
    IN  [j \in 1..k |-> IF j <= n THEN CHOOSE p \in 1..n : rank(p) = j ELSE None]

\* line 111: score = 1.0 / (1.0 + dist), kept as a fraction
Score(dist) == [num |-> 1, den |-> 1 + dist]

\* line 112: score >= score_threshold, the threshold t counted in tenths
ScoreAtLeastAlways(score, t) == TRUE

ScoreAtLeast(score, t) == score.num * Tenths >= t * score.den

\* a.score <= b.score
ScoreLeq(a, b) == a.num * b.den <= b.num * a.den

\* find_similar_products, lines 85-122, on an index idx with id list pids
find_similar_products(idx, pids, embedding, top_n, score_threshold, tie) ==
    IF top_n <= 0 \/ Len(embedding) # Dimension
    THEN <<>>                               \* index.search raises, line 104
    ELSE LET query == Float32Vec(embedding)
             labels == IndexSearch(idx, query, top_n, tie)
             score(p) == Score(L2Distance(idx[p], query))
             kept == SelectSeq(labels,
                         LAMBDA p : p # None /\ ScoreAtLeast(score(p), score_threshold))
         IN  IF \E j \in 1..Len(kept) : kept[j] > Len(pids)
             THEN <<>>                      \* product_ids[idx] raises, line 114
             ELSE [j \in 1..Len(kept) |->
                      [product_id |-> pids[kept[j]], score |-> score(kept[j])]]

\* find_similar_by_id, lines 124-148
find_similar_by_id(idx, pids, product_id, top_n, score_threshold, tie) ==
    LET embedding == get_embedding(idx, pids, product_id)
    IN  IF ~embedding.found
        THEN <<>>
        ELSE find_similar_products(idx, pids, embedding.vector, top_n,
                                   score_threshold, tie)

\* main.py lines 99-107 (and 64-72): the loop that drops repeated ids, from
\* position j of similar_products on
RECURSIVE UniqueProducts(_, _, _, _)
UniqueProducts(similar_products, j, unique_products, top_n) ==
    IF j > Len(similar_products)
    THEN unique_products
    ELSE IF similar_products[j].product_id
               \in {unique_products[x].product_id : x \in 1..Len(unique_products)}
    THEN UniqueProducts(similar_products, j + 1, unique_products, top_n)
    ELSE LET appended == Append(unique_products, similar_products[j])
         IN  IF Len(appended) >= top_n
             THEN appended
             ELSE UniqueProducts(similar_products, j + 1, appended, top_n)

\* what load_index gives a FAISSService constructed now (lines 260-280)
LoadedIndex == IF index_file.exists /\ ids_file.exists THEN index_file.data ELSE <<>>

LoadedProductIds == IF index_file.exists /\ ids_file.exists THEN ids_file.data ELSE <<>>

UnchangedOutsideSearch ==
    UNCHANGED <<bulkVars, faissVars, storeVars, ret, acked, apiVars, ingestVars,
                genVars>>

\* a caller asks instance w for the products nearest to a vector
FindSimilarProducts(w, embedding, top_n, score_threshold, tie) ==
    /\ fpc[w] = "idle"
    /\ search.op = "none"
    /\ LET results == find_similar_products(index[w], product_ids[w], embedding,
                                            top_n, score_threshold, tie)
       IN  search' = Search("find_similar_products", None, embedding, top_n,
                            score_threshold, TRUE, top_n, results, results,
                            FALSE)
    /\ UnchangedOutsideSearch

\* a caller asks instance w for the products nearest to a stored product
FindSimilarById(w, product_id, top_n, score_threshold, tie) ==
    /\ fpc[w] = "idle"
    /\ search.op = "none"
    /\ LET results == find_similar_by_id(index[w], product_ids[w], product_id,
                                         top_n, score_threshold, tie)
       IN  search' = Search("find_similar_by_id", product_id, <<>>, top_n,
                            score_threshold,
                            get_embedding(index[w], product_ids[w], product_id).found,
                            top_n, results, results, FALSE)
    /\ UnchangedOutsideSearch

\* GET /similar-products/{product_id}, main.py lines 88-118
get_similar_products(product_id, top_n, score_threshold, tie) ==
    /\ search.op = "none"
    /\ LET similar_products ==
               find_similar_by_id(LoadedIndex, LoadedProductIds, product_id,
                                  top_n * 2, score_threshold, tie)
       IN  search' = Search("get_similar_products", product_id, <<>>, top_n,
                            score_threshold,
                            get_embedding(LoadedIndex, LoadedProductIds,
                                          product_id).found,
                            top_n * 2, similar_products,
                            UniqueProducts(similar_products, 1, <<>>, top_n),
                            FALSE)
    /\ UnchangedOutsideSearch

\* POST /similar-products/upload, main.py lines 34-86: EmbeddingService has
\* no find_similar_products, so line 57 raises and line 86 answers the error
find_similar_products_from_image(embedding, top_n, score_threshold) ==
    /\ search.op = "none"
    /\ search' = Search("find_similar_products_from_image", None, embedding,
                        top_n, score_threshold, TRUE, None, <<>>, <<>>, TRUE)
    /\ UnchangedOutsideSearch

\* the answer has been delivered
SearchAnswered ==
    /\ search.op # "none"
    /\ search' = NoSearch
    /\ UnchangedOutsideSearch

(***************************************************************************)
(* ApiClient                                                               *)
(***************************************************************************)
UnchangedOutsideApi ==
    UNCHANGED <<bulkVars, faissVars, storeVars, ret, acked, searchVars,
                ingestVars, genVars>>

\* get_products, lines 155-157: the call of _make_request
get_products(page_number) ==
    /\ request.pc \in {"idle", "returned", "raised"}
    /\ request' = Request("get_products", <<"products?page=", page_number>>,
                          "make_request", 0, 0, "none", NoResponseData, "none")
    /\ sent' = 0
    /\ UNCHANGED <<cache, now>>
    /\ UnchangedOutsideApi

\* get_product_image, lines 164-168: the call of _make_request
get_product_image(product_id) ==
    /\ request.pc \in {"idle", "returned", "raised"}
    /\ request' = Request("get_product_image", <<"products/", product_id>>,
                          "make_request", 0, 0, "none", NoResponseData, "none")
    /\ sent' = 0
    /\ UNCHANGED <<cache, now>>
    /\ UnchangedOutsideApi

\* lines 137-139: the cache holds an entry for the url, younger than the TTL
CacheFreshAnyAge(url) == cache[url].cached

CacheFresh(url) ==
    cache[url].cached /\ now - cache[url].cache_time < CacheTtl

\* the call goes on after _make_request returned data: get_products builds
\* its PaginatedResponse (lines 158-162), get_product_image returns None for
\* data without image_url (lines 169-171) or goes on to fetch the image
AfterMakeRequest(attempt_number, data) ==
    IF request.op = "get_products"
    THEN Request(request.op, request.url, "returned", attempt_number,
                 request.failures, "returned", data, "PaginatedResponse")
    ELSE IF ~data.image_url
    THEN Request(request.op, request.url, "returned", attempt_number,
                 request.failures, "returned", data, "None")
    ELSE Request(request.op, request.url, "image", attempt_number,
                 request.failures, "returned", data, "none")

\* _make_request, lines 136-140: a run of the body answered from the cache
ReturnCached ==
    /\ request.pc = "make_request"
    /\ CacheFresh(request.url)
    /\ request' = AfterMakeRequest(request.attempt_number + 1,
                                   cache[request.url].cache_data)
    /\ UNCHANGED <<cache, now, sent>>
    /\ UnchangedOutsideApi

\* _make_request, lines 142-150: a run of the body whose HTTP request succeeds
RequestSucceeds(image_url) ==
    /\ request.pc = "make_request"
    /\ ~CacheFresh(request.url)
    /\ LET data == Response(request.url, now, image_url)
       IN  /\ cache' = [cache EXCEPT ![request.url] = CacheEntry(now, data)]
           /\ request' = AfterMakeRequest(request.attempt_number + 1, data)
    /\ sent' = sent + 1
    /\ UNCHANGED now
    /\ UnchangedOutsideApi

\* the third failure is raised again by the decorator (reraise=True):
\* get_products lets it pass, get_product_image catches it (lines 183-185)
AfterLastFailure ==
    IF request.op = "get_products"
    THEN Request(request.op, request.url, "raised", StopAfterAttempt,
                 StopAfterAttempt, "raised", NoResponseData, "none")
    ELSE Request(request.op, request.url, "returned", StopAfterAttempt,
                 StopAfterAttempt, "raised", NoResponseData, "None")

\* _make_request, lines 142-153: a run of the body whose HTTP request raises;
\* the decorator of lines 124-128 runs the body again until the third failure
RequestFails ==
    /\ request.pc = "make_request"
    /\ ~CacheFresh(request.url)
    /\ request' = IF request.attempt_number + 1 >= StopAfterAttempt
                  THEN AfterLastFailure
                  ELSE [request EXCEPT !.attempt_number = @ + 1,
                                       !.failures = @ + 1]
    /\ sent' = sent + 1
    /\ UNCHANGED <<cache, now>>
    /\ UnchangedOutsideApi

\* get_product_image, lines 176-185: the image is fetched, once; fetched says
\* whether the response came with status 200 (else: another status, or the
\* request raised)
FetchImage(fetched) ==
    /\ request.pc = "image"
    /\ request' = [request EXCEPT !.pc = "returned",
                                  !.result = IF fetched THEN "bytes" ELSE "None"]
    /\ UNCHANGED <<cache, now, sent>>
    /\ UnchangedOutsideApi

\* time passes
Tick ==
    /\ now < MaxTime
    /\ now' = now + 1
    /\ UNCHANGED <<request, cache, sent>>
    /\ UnchangedOutsideApi

(***************************************************************************)
(* EmbeddingService.process_all_pages                                      *)
(***************************************************************************)
UnchangedOutsideIngest ==
    UNCHANGED <<bulkVars, faissVars, storeVars, ret, acked, searchVars, apiVars,
                genVars, soft_limit>>

\* lines 122-128
process_all_pages(sp, max_pages, batch_size, last_page) ==
    /\ ingest.pc \in {"idle", "returned"}
    /\ ingest' = Ingest("while", sp, max_pages, batch_size, last_page, 0, 0, sp,
                        TRUE, FALSE, 0, 0, 0, NoReport)
    /\ UnchangedOutsideIngest

\* lines 131 and 140: max_pages is not None and total_pages >= max_pages
MaxPagesReached ==
    ingest.max_pages # None /\ ingest.total_pages >= ingest.max_pages

\* current_page += 1, lines 174 and 180. Every page beyond the catalog is
\* answered alike, so the pages from MaxPages + 1 on are kept as one.
NextPage == Min(ingest.current_page + 1, MaxPages + 1)

\* lines 130-137: the while test and the break of line 133 fail
BeginBatch ==
    /\ ingest.pc = "while"
    /\ ingest.has_more_pages
    /\ ~MaxPagesReached
    /\ ingest' = [ingest EXCEPT !.pc = "for", !.batch_pages_processed = 0,
                                !.batch_products_processed = 0, !.batch_i = 0]
    /\ UnchangedOutsideIngest

\* lines 130-133 and 190-195: the loop ends and the report is returned
ReturnStatistics ==
    /\ ingest.pc = "while"
    /\ ~ingest.has_more_pages \/ MaxPagesReached
    /\ ingest' = [ingest EXCEPT
                      !.pc = "returned",
                      !.report = [total_pages_processed |-> ingest.total_pages,
                                  total_products_processed |-> ingest.total_products]]
    /\ UnchangedOutsideIngest

\* the for loop of line 139 goes on with another page
MorePagesInBatch ==
    /\ ingest.pc = "for"
    /\ ingest.batch_i < ingest.batch_size
    /\ ~MaxPagesReached

\* lines 184-185, after the for loop
EndOfBatch(g) ==
    [g EXCEPT !.pc = "while",
              !.total_pages = @ + g.batch_pages_processed,
              !.total_products = @ + g.batch_products_processed]

\* lines 139-141 and 184-185: the for loop ends after batch_size pages or at
\* the break of line 141
BatchDone ==
    /\ ingest.pc = "for"
    /\ ~MorePagesInBatch
    /\ ingest' = EndOfBatch(ingest)
    /\ UnchangedOutsideIngest

\* lines 146, 177-181: get_products raises (its three attempts failed)
PageRequestFails ==
    /\ MorePagesInBatch
    /\ ingest' = [ingest EXCEPT !.batch_i = @ + 1, !.current_page = NextPage,
                                !.append_mode = TRUE]
    /\ UnchangedOutsideIngest

\* lines 148-151: a page beyond the catalog has no products
PageEmpty ==
    /\ MorePagesInBatch
    /\ ingest.current_page > ingest.last_page
    /\ ingest' = EndOfBatch([ingest EXCEPT !.has_more_pages = FALSE])
    /\ UnchangedOutsideIngest

\* lines 154-168, 177-181: the n products of the page are embedded and
\* counted; products_response.links is the dict of the JSON (api_client.py
\* lines 70-73, 158-162), so links.next raises AttributeError and the except
\* branch moves to the next page
PageProcessed(n) ==
    /\ MorePagesInBatch
    /\ ingest.current_page <= ingest.last_page
    /\ ingest' = [ingest EXCEPT !.batch_i = @ + 1,
                                !.batch_pages_processed = @ + 1,
                                !.batch_products_processed = @ + n,
                                !.current_page = NextPage,
                                !.append_mode = TRUE]
    /\ UnchangedOutsideIngest

\* lines 157-161, 177-181: generate_embeddings_for_products raises
PageGenerationFails ==
    /\ MorePagesInBatch
    /\ ingest.current_page <= ingest.last_page
    /\ ingest' = [ingest EXCEPT !.batch_i = @ + 1, !.current_page = NextPage,
                                !.append_mode = TRUE]
    /\ UnchangedOutsideIngest

\* the steps of process_all_pages leave everything else alone
UnchangedOutsideTask ==
    UNCHANGED <<bulkVars, faissVars, storeVars, ret, acked, searchVars, apiVars,
                genVars>>

\* the pages the run has processed so far (lines 164 and 184)
PagesDone(g) ==
    IF g.pc = "for" THEN g.total_pages + g.batch_pages_processed
    ELSE g.total_pages

\* celery_config.py line 30: after task_soft_time_limit seconds the worker
\* raises SoftTimeLimitExceeded in the task, wherever it is executing. Here
\* it is raised inside the try of lines 144-176: the except of line 177
\* takes it for a page error and goes on with the next page
SoftTimeLimitCaught ==
    /\ MorePagesInBatch
    /\ ~soft_limit.fired
    /\ soft_limit' = [fired |-> TRUE, pages_done |-> PagesDone(ingest)]
    /\ ingest' = [ingest EXCEPT !.batch_i = @ + 1, !.current_page = NextPage,
                                !.append_mode = TRUE]
    /\ UnchangedOutsideTask

\* SoftTimeLimitExceeded is raised outside the try of lines 144-176 (in the
\* event loop, or between two statements of the while loop): it leaves
\* process_all_pages, and embedding_task.py lines 41-43 and 50-52 raise it
\* again, so the task ends without a result
SoftTimeLimitPropagates ==
    /\ ingest.pc \in {"while", "for"}
    /\ ~soft_limit.fired
    /\ soft_limit' = [fired |-> TRUE, pages_done |-> PagesDone(ingest)]
    /\ ingest' = [ingest EXCEPT !.pc = "raised"]
    /\ UnchangedOutsideTask

\* celery_config.py line 29: task_time_limit seconds after its start the
\* process of a task that is still running is killed
HardTimeLimit ==
    /\ ingest.pc \in {"while", "for"}
    /\ soft_limit.fired
    /\ ingest' = [ingest EXCEPT !.pc = "killed"]
    /\ UNCHANGED soft_limit
    /\ UnchangedOutsideTask

(***************************************************************************)
(* EmbeddingService.generate_embeddings_for_products                       *)
(***************************************************************************)
UnchangedOutsideGeneration ==
    UNCHANGED <<bulkVars, faissVars, storeVars, ret, acked, searchVars, apiVars,
                ingestVars>>

\* ResNetEmbedder.get_embedding, resnet/model.py lines 48-75: image_fetched
\* says whether image_data is bytes (get_product_image returns None
\* otherwise, and None.convert raises inside the try); embedded says whether
\* decoding and the model succeed. Every failure is caught and None returned.
ResNetGetEmbedding(product_id, image_fetched, embedded) ==
    IF image_fetched /\ embedded
    THEN Embedding(ImageEmbedding(product_id))
    ELSE NoEmbedding

\* lines 70-71
generate_embeddings_for_products(pids) ==
    /\ gen.pc \in {"idle", "returned", "raised"}
    /\ gen' = Generation("loop", pids, <<>>, <<>>, <<>>, <<>>)
    /\ UnchangedOutsideGeneration

\* lines 74-78 with get_embedding_for_product, lines 43-48: neither
\* get_product_image nor get_embedding raises, so the pair is appended
EmbedNextProduct(image_fetched, embedded) ==
    /\ gen.pc = "loop"
    /\ Len(gen.ids) + Len(gen.errors) < Len(gen.product_ids)
    /\ LET product_id == gen.product_ids[Len(gen.ids) + Len(gen.errors) + 1]
           embedding == ResNetGetEmbedding(product_id, image_fetched, embedded)
       IN  gen' = [gen EXCEPT !.embeddings = Append(@, embedding),
                              !.ids = Append(@, product_id)]
    /\ UnchangedOutsideGeneration

\* lines 83-97: the DataFrame is built from the two lists and returned.
\* pd.DataFrame of a list that holds None among the vectors either raises
\* TypeError or builds the rows with empty cells, depending on where the
\* None is and on the pandas version: raises chooses
BuildDataFrame(raises) ==
    /\ gen.pc = "loop"
    /\ Len(gen.ids) + Len(gen.errors) = Len(gen.product_ids)
    /\ IF raises /\ NoEmbedding \in Range(gen.embeddings)
       THEN gen' = [gen EXCEPT !.pc = "raised"]
       ELSE gen' = [gen EXCEPT
                       !.pc = "returned",
                       !.rows = [k \in 1..Len(gen.ids) |->
                                    [id |-> gen.ids[k],
                                     embedding |-> gen.embeddings[k]]]]
    /\ UnchangedOutsideGeneration

(***************************************************************************)
(* RedisService, QdrantService, delete_single_embedding_task               *)
(***************************************************************************)
Present(e) == IF e.found THEN 1 ELSE 0

UnchangedOutsideStores == UNCHANGED <<bulkVars, faissVars, acked, serviceVars>>

\* RedisService.save_embedding, redis_service.py lines 40-71; ok: the
\* connection exists and SET succeeds
redis_save_embedding(product_id, embedding, ok) ==
    /\ redis' = IF ok THEN [redis EXCEPT ![product_id] = Embedding(embedding)]
                ELSE redis
    /\ ret' = Call("redis_save_embedding", 0, <<product_id>>, <<embedding>>, ok,
                   Present(redis[product_id]))
    /\ UNCHANGED qdrant
    /\ UnchangedOutsideStores

\* the effect and the value of RedisService.delete_embedding, lines 107-135
RedisDeleted(product_id, ok) ==
    IF ok THEN [redis EXCEPT ![product_id] = NoEmbedding] ELSE redis

RedisDeleteResult(product_id, ok) == ok /\ redis[product_id].found

redis_delete_embedding(product_id, ok) ==
    /\ redis' = RedisDeleted(product_id, ok)
    /\ ret' = Call("redis_delete_embedding", 0, <<product_id>>, <<>>,
                   RedisDeleteResult(product_id, ok), Present(redis[product_id]))
    /\ UNCHANGED qdrant
    /\ UnchangedOutsideStores

\* QdrantService.save_embedding, qdrant_service.py lines 87-110; the
\* collection is created with vectors of the embedding size (line 47), so the
\* upsert of another length raises
qdrant_save_embedding(product_id, embedding, ok) ==
    LET stored == ok /\ Len(embedding) = Dimension
    IN  /\ qdrant' = IF stored
                     THEN [qdrant EXCEPT ![product_id] = Embedding(Float32Vec(embedding))]
                     ELSE qdrant
        /\ ret' = Call("qdrant_save_embedding", 0, <<product_id>>, <<embedding>>,
                       stored, Present(qdrant[product_id]))
        /\ UNCHANGED redis
        /\ UnchangedOutsideStores

\* the effect and the value of QdrantService.delete_embedding, lines 213-234;
\* completed: client.delete did not raise
QdrantDeleted(product_id, completed) ==
    IF completed THEN [qdrant EXCEPT ![product_id] = NoEmbedding] ELSE qdrant

QdrantDeleteResult(product_id, completed) == completed

qdrant_delete_embedding(product_id, completed) ==
    /\ qdrant' = QdrantDeleted(product_id, completed)
    /\ ret' = Call("qdrant_delete_embedding", 0, <<product_id>>, <<>>,
                   QdrantDeleteResult(product_id, completed),
                   Present(qdrant[product_id]))
    /\ UNCHANGED redis
    /\ UnchangedOutsideStores

\* delete_single_embedding_task, embedding_task.py lines 168-195
delete_single_embedding_task(product_id, redis_ok, qdrant_completed) ==
    LET redis_success == RedisDeleteResult(product_id, redis_ok)
        qdrant_success == QdrantDeleteResult(product_id, qdrant_completed)
    IN  /\ redis' = RedisDeleted(product_id, redis_ok)
        /\ qdrant' = QdrantDeleted(product_id, qdrant_completed)
        /\ ret' = Call("delete_single_embedding_task", 0, <<product_id>>, <<>>,
                       redis_success \/ qdrant_success,
                       Present(redis[product_id]) + Present(qdrant[product_id]))
        /\ UnchangedOutsideStores

\* the vectors the stores hold before a single-item task runs
StoredEmbeddings == SearchEmbeddings

\* the embedding a single-item task obtains, as the one-element list of the
\* call record (empty: get_embedding returned None)
Generated(embedding) == IF embedding.found THEN <<embedding.vector>> ELSE <<>>

\* generate_single_embedding_task, embedding_task.py lines 70-116:
\* get_embedding_for_product returns (id, embedding) and nothing is written
\* to a store; embedding.shape[0] raises for None, which line 92 catches
generate_single_embedding_task(product_id, image_fetched, embedded) ==
    LET embedding == ResNetGetEmbedding(product_id, image_fetched, embedded)
    IN  /\ ret' = Call("generate_single_embedding_task", 0, <<product_id>>,
                       Generated(embedding), embedding.found,
                       Present(redis[product_id]) + Present(qdrant[product_id]))
        /\ UNCHANGED <<redis, qdrant>>
        /\ UnchangedOutsideStores

\* update_single_embedding_task, embedding_task.py lines 119-165:
\* EmbeddingService has no update_embedding_for_product, so line 136 raises
\* AttributeError, line 142 catches it and the status is "failed"; the call
\* record keeps the embedding the image of the product would give
update_single_embedding_task(product_id, image_fetched, embedded) ==
    LET embedding == ResNetGetEmbedding(product_id, image_fetched, embedded)
    IN  /\ ret' = Call("update_single_embedding_task", 0, <<product_id>>,
                       Generated(embedding), FALSE,
                       Present(redis[product_id]) + Present(qdrant[product_id]))
        /\ UNCHANGED <<redis, qdrant>>
        /\ UnchangedOutsideStores

(***************************************************************************)
(* Specifications                                                          *)
(***************************************************************************)
SpecBulk == Init /\ [][NextBulk]_vars

\* one FAISSService instance, called with every kind of argument
NextIndex ==
    \/ FAISSService(1)
    \/ LoadProductIds(1)
    \/ \E product_id \in Ids, embedding \in Embeddings :
          save_embedding(1, product_id, embedding)
    \/ \E items \in SeqsOfLen(Ids \X BatchRows, 0, MaxBatch), missing \in 0..1 :
          /\ missing <= Len(items)
          /\ save_embeddings_batch(1, [k \in 1..Len(items) |-> items[k][1]],
                 [k \in 1..(Len(items) - missing) |-> items[k][2]])
    \/ \E product_id \in Ids : delete_embedding(1, product_id)
    \/ WriteIndexFile(1)
    \/ WriteProductIdsFile(1)

SpecIndex == Init /\ [][NextIndex]_vars

\* the ids a worker generates embeddings for: disjoint between workers
OwnIds(w) == {p \in Ids : ((p - 1) % NumWorkers) + 1 = w}

\* parallel workers, each with its own instance, storing their own ids
NextWorkers ==
    \/ \E w \in Workers : FAISSService(w)
    \/ \E w \in Workers : LoadProductIds(w)
    \/ \E w \in Workers : \E product_id \in OwnIds(w) :
          save_embedding(w, product_id, ImageEmbedding(product_id))
    \/ \E w \in Workers : WriteIndexFile(w)
    \/ \E w \in Workers : WriteProductIdsFile(w)

SpecWorkers == Init /\ [][NextWorkers]_vars

\* the three stores side by side, and the single-item delete task
NextDelete ==
    \/ FAISSService(1)
    \/ LoadProductIds(1)
    \/ \E product_id \in Ids :
          save_embedding(1, product_id, ImageEmbedding(product_id))
    \/ \E product_id \in Ids : delete_embedding(1, product_id)
    \/ WriteIndexFile(1)
    \/ WriteProductIdsFile(1)
    \/ \E product_id \in Ids, ok \in BOOLEAN :
          redis_save_embedding(product_id, ImageEmbedding(product_id), ok)
    \/ \E product_id \in Ids, ok \in BOOLEAN :
          redis_delete_embedding(product_id, ok)
    \/ \E product_id \in Ids, ok \in BOOLEAN :
          qdrant_save_embedding(product_id, ImageEmbedding(product_id), ok)
    \/ \E product_id \in Ids, completed \in BOOLEAN :
          qdrant_delete_embedding(product_id, completed)
    \/ \E product_id \in Ids, redis_ok \in BOOLEAN, qdrant_completed \in BOOLEAN :
          delete_single_embedding_task(product_id, redis_ok, qdrant_completed)

SpecDelete == Init /\ [][NextDelete]_vars

\* RedisService alone, called with vectors of the right and of a wrong length
NextRedis ==
    \/ \E product_id \in Ids, embedding \in Embeddings, ok \in BOOLEAN :
          redis_save_embedding(product_id, embedding, ok)
    \/ \E product_id \in Ids, ok \in BOOLEAN :
          redis_delete_embedding(product_id, ok)

SpecRedis == Init /\ [][NextRedis]_vars

\* instance 1 performs save and delete operations until the process is
\* restarted between two calls; instance 2 is the FAISSService constructed
\* after the restart
NextRestart ==
    \/ fpc[2] = "none" /\ FAISSService(1)
    \/ LoadProductIds(1)
    \/ /\ fpc[2] = "none"
       /\ \E product_id \in Ids, embedding \in Embeddings :
             save_embedding(1, product_id, embedding)
    \/ /\ fpc[2] = "none"
       /\ \E items \in SeqsOfLen(Ids \X BatchRows, 1, MaxBatch) :
             save_embeddings_batch(1, [k \in 1..Len(items) |-> items[k][1]],
                                   [k \in 1..Len(items) |-> items[k][2]])
    \/ /\ fpc[2] = "none"
       /\ \E product_id \in Ids : delete_embedding(1, product_id)
    \/ WriteIndexFile(1)
    \/ WriteProductIdsFile(1)
    \/ fpc[1] \in {"none", "idle"} /\ FAISSService(2)
    \/ LoadProductIds(2)

SpecRestart == Init /\ [][NextRestart]_vars

\* one ApiClient and one caller
NextApi ==
    \/ get_products(1)
    \/ \E product_id \in Ids : get_product_image(product_id)
    \/ ReturnCached
    \/ \E image_url \in BOOLEAN : RequestSucceeds(image_url)
    \/ RequestFails
    \/ \E fetched \in BOOLEAN : FetchImage(fetched)
    \/ Tick

SpecApi == Init /\ [][NextApi]_vars

\* the steps of a running process_all_pages
IngestStep ==
    \/ BeginBatch
    \/ ReturnStatistics
    \/ BatchDone
    \/ PageRequestFails
    \/ PageEmpty
    \/ \E n \in 1..MaxId : PageProcessed(n)
    \/ PageGenerationFails

\* generate_embeddings_task runs process_all_pages with its arguments
NextIngest ==
    \/ \E sp \in 1..(MaxPages + 1), max_pages \in {None} \cup 0..MaxCap,
          batch_size \in 1..MaxBatch, last_page \in 0..MaxPages :
          process_all_pages(sp, max_pages, batch_size, last_page)
    \/ IngestStep

SpecIngest == Init /\ [][NextIngest]_vars

\* the coroutine keeps running: a step that is possible is taken
SpecIngestFair == SpecIngest /\ WF_vars(IngestStep)

\* generate_embeddings_for_products over lists of products whose images may
\* fail to be fetched or embedded
NextGeneration ==
    \/ \E pids \in SeqsOfLen(Ids, 0, MaxEntries) :
          generate_embeddings_for_products(pids)
    \/ \E image_fetched \in BOOLEAN, embedded \in BOOLEAN :
          EmbedNextProduct(image_fetched, embedded)
    \/ \E raises \in BOOLEAN : BuildDataFrame(raises)

SpecGeneration == Init /\ [][NextGeneration]_vars

\* the single-item tasks next to the stores they are said to fill
NextSingle ==
    \/ \E product_id \in Ids, embedding \in StoredEmbeddings, ok \in BOOLEAN :
          redis_save_embedding(product_id, embedding, ok)
    \/ \E product_id \in Ids, embedding \in StoredEmbeddings, ok \in BOOLEAN :
          qdrant_save_embedding(product_id, embedding, ok)
    \/ \E product_id \in Ids, image_fetched \in BOOLEAN, embedded \in BOOLEAN :
          generate_single_embedding_task(product_id, image_fetched, embedded)
    \/ \E product_id \in Ids, image_fetched \in BOOLEAN, embedded \in BOOLEAN :
          update_single_embedding_task(product_id, image_fetched, embedded)

SpecSingle == Init /\ [][NextSingle]_vars

\* one FAISSService instance, storing the embeddings of product images on a
\* disk whose writes may fail
NextDisk ==
    \/ FAISSService(1)
    \/ LoadProductIds(1)
    \/ \E product_id \in Ids :
          save_embedding(1, product_id, ImageEmbedding(product_id))
    \/ \E pids \in SeqsOfLen(Ids, 1, MaxBatch) :
          save_embeddings_batch(1, pids,
                                [k \in 1..Len(pids) |-> ImageEmbedding(pids[k])])
    \/ \E product_id \in Ids : delete_embedding(1, product_id)
    \/ WriteIndexFile(1)
    \/ WriteProductIdsFile(1)
    \/ WriteIndexFileFails(1)
    \/ WriteProductIdsFileFails(1)

SpecDisk == Init /\ [][NextDisk]_vars

\* one worker, storing the embeddings of product images, whose process may
\* die inside save_index and is started again
NextCrash ==
    \/ FAISSService(1)
    \/ LoadProductIds(1)
    \/ \E product_id \in Ids :
          save_embedding(1, product_id, ImageEmbedding(product_id))
    \/ \E pids \in SeqsOfLen(Ids, 1, MaxBatch) :
          save_embeddings_batch(1, pids,
                                [k \in 1..Len(pids) |-> ImageEmbedding(pids[k])])
    \/ \E product_id \in Ids : delete_embedding(1, product_id)
    \/ WriteIndexFile(1)
    \/ WriteProductIdsFile(1)
    \/ WorkerDies(1)

SpecCrash == Init /\ [][NextCrash]_vars

\* one run of generate_embeddings_task under the time limits of the worker
NextTimeLimit ==
    \/ /\ ~soft_limit.fired
       /\ \E sp \in 1..(MaxPages + 1), max_pages \in {None} \cup 0..MaxCap,
             batch_size \in 1..MaxBatch, last_page \in 0..MaxPages :
             process_all_pages(sp, max_pages, batch_size, last_page)
    \/ IngestStep
    \/ SoftTimeLimitCaught
    \/ SoftTimeLimitPropagates
    \/ HardTimeLimit

SpecTimeLimit == Init /\ [][NextTimeLimit]_vars

\* the orders tried among vectors at the same distance
Ties == {"first", "last"}

\* one FAISSService instance filled by save_embedding, and one caller that
\* asks one similarity query at a time
NextSearch ==
    \/ search.op = "none" /\ FAISSService(1)
    \/ LoadProductIds(1)
    \/ /\ search.op = "none"
       /\ \E product_id \in Ids, embedding \in SearchEmbeddings :
             save_embedding(1, product_id, embedding)
    \/ WriteIndexFile(1)
    \/ WriteProductIdsFile(1)
    \/ \E embedding \in SearchEmbeddings \cup {ShortEmbedding, LongEmbedding},
          top_n \in 0..MaxTopN,
          score_threshold \in Thresholds, tie \in Ties :
          FindSimilarProducts(1, embedding, top_n, score_threshold, tie)
    \/ \E product_id \in Ids, top_n \in 0..MaxTopN,
          score_threshold \in Thresholds, tie \in Ties :
          FindSimilarById(1, product_id, top_n, score_threshold, tie)
    \/ \E product_id \in Ids, top_n \in 0..MaxTopN,
          score_threshold \in Thresholds, tie \in Ties :
          get_similar_products(product_id, top_n, score_threshold, tie)
    \/ \E top_n \in 0..MaxTopN, score_threshold \in Thresholds :
          find_similar_products_from_image(ImageEmbedding(0), top_n,
                                           score_threshold)
    \/ SearchAnswered

SpecSearch == Init /\ [][NextSearch]_vars

(***************************************************************************)
(* Properties of generate_embeddings_old                                   *)
(***************************************************************************)
RECURSIVE SumPageCount(_)
SumPageCount(us) ==
    IF us = <<>> THEN 0 ELSE Head(us).page_count + SumPageCount(Tail(us))

UnitPages(u) == u.start_page .. (u.start_page + u.page_count - 1)

UnitsHolding(p) == {k \in 1..Len(units) : p \in UnitPages(units[k])}

\* pages_to_process as the claims define it, from the inputs only
ClaimPagesToProcess ==
    IF max_pages_to_process_overall = None
    THEN total_api_pages - start_page + 1
    ELSE Min(total_api_pages - start_page + 1, max_pages_to_process_overall)

ClaimActualWorkers == Min(num_target_tasks, ClaimPagesToProcess)

ReportReturned ==
    hpc = "returned" /\ response.status = 200 /\ ~response.no_work

\* C1: when the handler returns for 1 <= start_page <= total_pages, the
\* units it built cover exactly start_page .. start_page + pages_to_process - 1:
\* every such page lies in exactly one unit, no unit holds another page, and
\* the page counts sum to pages_to_process.
C1_UnitsCoverRange ==
    (hpc = "returned" /\ total_api_pages >= 1
       /\ start_page >= 1 /\ start_page <= total_api_pages)
    => LET last == start_page + ClaimPagesToProcess - 1
       IN  /\ \A p \in start_page..last : Cardinality(UnitsHolding(p)) = 1
           /\ \A k \in 1..Len(units) : UnitPages(units[k]) \subseteq start_page..last
           /\ SumPageCount(units) = ClaimPagesToProcess

\* a capped request that was split into several uneven units
C1_Witness ==
    /\ ReportReturned
    /\ start_page > 1
    /\ max_pages_to_process_overall # None
    /\ max_pages_to_process_overall < total_api_pages - start_page + 1
    /\ Len(units) >= 2
    /\ units[Len(units)].page_count < units[1].page_count

\* C2: when the handler returns its report (here: for start_page >= 1, and
\* every unit it built had products and was dispatched), the number of
\* dispatched units is min(N, pages_to_process) and actual_tasks_dispatched
\* equals the number of task ids in task_ids.
C2_DispatchedEqualsActualWorkers ==
    (ReportReturned /\ start_page >= 1 /\ Len(task_ids) = Len(units))
    => /\ Len(task_ids) = ClaimActualWorkers
       /\ response.actual_tasks_dispatched = Len(response.task_ids)

\* C3: every unit has between 1 and ceil(pages_to_process / actual_workers)
\* pages, and every page requested for a unit lies in start_page .. total_pages.
C3_UnitSizeAndPageBounds ==
    /\ \A k \in 1..Len(units) :
          /\ units[k].page_count >= 1
          /\ units[k].page_count <= CeilDiv(ClaimPagesToProcess, ClaimActualWorkers)
    /\ \A k \in 2..Len(page_requests) :
          /\ page_requests[k] >= start_page
          /\ page_requests[k] <= total_api_pages

\* the last page of the catalog was requested for a unit shorter than the stride
C3_Witness ==
    /\ ReportReturned
    /\ \E k \in 1..Len(units) : units[k].page_count < pages_per_task
    /\ \E k \in 2..Len(page_requests) : page_requests[k] = total_api_pages

\* C4: once page 1 has told total_pages, a request with start_page >
\* total_pages or pages_to_process <= 0 ends with a normal report that says no
\* work was done: no unit, no task id, and no page requested except page 1.
C4_NoWorkReport ==
    (/\ hpc \notin {"idle", "first_page", "plan"}
     /\ response.status # 502
     /\ (start_page > total_api_pages \/ ClaimPagesToProcess <= 0))
    => /\ hpc = "returned"
       /\ response = NoWorkResponse
       /\ task_ids = <<>>
       /\ units = <<>>
       /\ page_requests = <<1>>

\* the page cap 0 ended a request whose start page exists
C4_Witness ==
    /\ hpc = "returned"
    /\ response.no_work
    /\ start_page <= total_api_pages
    /\ max_pages_to_process_overall = 0

(***************************************************************************)
(* Properties of the vector stores                                         *)
(***************************************************************************)
\* no FAISSService call is in progress
Quiet == \A w \in Workers : fpc[w] \in {"none", "idle"}

\* C5: after save_embedding(id, v) with a D-length v has returned, also for an
\* id that already had an entry, get_embedding(id) on the same instance returns
\* v (as the index holds it, in float32).
C5_SaveThenGetReturnsV ==
    (Quiet /\ ret.op = "save_embedding" /\ Len(ret.embs[1]) = Dimension)
    => /\ ret.result
       /\ get_embedding(index[ret.w], product_ids[ret.w], ret.ids[1])
              = Embedding(Float32Vec(ret.embs[1]))

\* C6: whatever save_embedding / save_embeddings_batch calls were made, an
\* instance holds at most one entry per product id, and after v2 was stored
\* for an id its only entry is v2.
C6_OneEntryPerId ==
    Quiet
    => /\ \A w \in Workers : \A p \in Ids : CountEntries(product_ids[w], p) <= 1
       /\ (ret.op = "save_embedding" /\ ret.result)
          => EntriesOf(index[ret.w], product_ids[ret.w], ret.ids[1])
                 = <<Float32Vec(ret.embs[1])>>

\* C7: once every worker has finished, each id whose save_embedding returned
\* True is found by a newly constructed FAISSService.
C7_NoLostWrites ==
    Quiet => \A p \in acked : check_embedding(p)

\* C8: after delete_embedding(id) has returned, get_embedding(id) is None, and
\* the delete leaves the entries of every other id as they were.
C8_GetAfterDeleteIsNone ==
    (Quiet /\ ret.op = "delete_embedding")
    => ~get_embedding(index[ret.w], product_ids[ret.w], ret.ids[1]).found

C8_DeleteKeepsOtherIds ==
    \A w \in Workers :
        (fpc[w] = "idle" /\ pending'[w].op = "delete_embedding")
        => \A p \in Ids \ {pending'[w].ids[1]} :
              EntriesOf(index'[w], product_ids'[w], p)
                  = EntriesOf(index[w], product_ids[w], p)

HasEntry(op, product_id) ==
    CASE op = "delete_embedding" -> product_id \in Range(product_ids[ret.w])
      [] op = "qdrant_delete_embedding" -> qdrant[product_id].found
      [] op = "delete_single_embedding_task" ->
             redis[product_id].found \/ qdrant[product_id].found

\* C9: delete_embedding of FAISSService and of QdrantService, and the success
\* flag of delete_single_embedding_task, are true exactly when an entry for
\* the id existed before the call and is gone after it.
C9_DeleteTrueIffRemoved ==
    (/\ Quiet
     /\ ret.op \in {"delete_embedding", "qdrant_delete_embedding",
                    "delete_single_embedding_task"})
    => (ret.result <=> (ret.existed > 0 /\ ~HasEntry(ret.op, ret.ids[1])))

\* C10: after delete_single_embedding_task reported success for an id, the
\* embedding check served from the FAISS files finds no entry for the id.
C10_DeletedIdNotServed ==
    (Quiet /\ ret.op = "delete_single_embedding_task" /\ ret.result)
    => ~check_embedding(ret.ids[1])

\* C11: no save operation accepts a vector of another length than D:
\* save_embedding and save_embeddings_batch of FAISSService and save_embedding
\* of RedisService return failure for it, so every vector held by the index
\* or by Redis has length D.
C11_StoredVectorsHaveLengthD ==
    /\ \A w \in Workers : \A k \in 1..Len(index[w]) :
          Len(index[w][k]) = Dimension
    /\ \A p \in Ids : redis[p].found => Len(redis[p].vector) = Dimension
    /\ (/\ Quiet
        /\ ret.op \in {"save_embedding", "save_embeddings_batch",
                       "redis_save_embedding"}
        /\ \E k \in 1..Len(ret.embs) : Len(ret.embs[k]) # Dimension)
       => ~ret.result

\* C12: after save_embeddings_batch was called with as many embeddings as ids,
\* some of them invalid, every valid item of the batch is stored: the instance
\* holds its vector (in float32) under its id.
C12_BatchStoresValidItems ==
    (/\ Quiet
     /\ ret.op = "save_embeddings_batch"
     /\ Len(ret.ids) = Len(ret.embs))
    => \A k \in 1..Len(ret.ids) :
          Len(ret.embs[k]) = Dimension
          => \E j \in 1..Len(product_ids[ret.w]) :
                /\ product_ids[ret.w][j] = ret.ids[k]
                /\ j <= Len(index[ret.w])
                /\ index[ret.w][j] = Float32Vec(ret.embs[k])

C13_ResultsBoundedAndOrdered ==
    search.op = "find_similar_products"
    => /\ Len(search.results) <= search.top_n
       /\ \A j \in 1..Len(search.results) :
             search.results[j].score.num * Tenths
                 >= search.score_threshold * search.results[j].score.den
       /\ \A j \in 2..Len(search.results) :
             ScoreLeq(search.results[j].score, search.results[j - 1].score)

\* a query answered with results of different scores, while the index holds
\* more vectors than were returned
C13_Witness ==
    /\ search.op = "find_similar_products"
    /\ search.score_threshold > 0
    /\ Len(search.results) >= 2
    /\ search.results[1].score # search.results[2].score
    /\ Len(index[1]) > Len(search.results)

\* C14: the results of find_similar_by_id(id, ...) and of
\* GET /similar-products/{id} hold no entry whose product id is id.
C14_QueryExcludesItself ==
    search.op \in {"find_similar_by_id", "get_similar_products"}
    => \A j \in 1..Len(search.results) :
          search.results[j].product_id # search.product_id

\* C15: a similarity query by id for an id without a stored vector returns
\* something else than the empty list a successful query without matches
\* returns.
C15_MissingIdIsNotFound ==
    (/\ search.op \in {"find_similar_by_id", "get_similar_products"}
     /\ ~search.found)
    => (search.results # <<>> \/ search.error)

\* the product ids of a result list, in order
ResultIds(results) == [j \in 1..Len(results) |-> results[j].product_id]

\* C16: both search endpoints ask the index for 2 * top_n results and answer
\* with a list that holds no product id twice, holds for each id its first
\* occurrence among the fetched results, in the fetched order, and has
\* min(top_n, number of distinct fetched ids) entries.
C16_BufferedSearchCollapsesIds ==
    search.op \in {"get_similar_products", "find_similar_products_from_image"}
    => LET fetched_ids == ResultIds(search.fetched)
           first(j) == ListIndex(fetched_ids, search.results[j].product_id)
       IN  /\ ~search.error
           /\ search.requested = 2 * search.top_n
           /\ \A j1, j2 \in 1..Len(search.results) :
                 j1 < j2 => /\ search.results[j1].product_id
                                # search.results[j2].product_id
                            /\ first(j1) < first(j2)
           /\ \A j \in 1..Len(search.results) :
                 /\ first(j) > 0
                 /\ search.results[j] = search.fetched[first(j)]
           /\ Len(search.results)
                 = Min(search.top_n, Cardinality(Range(fetched_ids)))

(***************************************************************************)
(* Properties of ApiClient                                                 *)
(***************************************************************************)
\* C18: the body of _make_request runs at most 3 times per call; when it
\* returns, it returns on its first successful run; and when 3 runs failed,
\* the failure is raised to the caller of get_products / get_product_image.
C18_ThreeAttemptsThenRaise ==
    /\ request.attempt_number <= StopAfterAttempt
    /\ request.made = "returned"
       => request.failures = request.attempt_number - 1
    /\ request.failures = StopAfterAttempt
       => (request.made = "raised" /\ request.pc = "raised")

(***************************************************************************)
(* Properties of EmbeddingService                                          *)
(***************************************************************************)
\* C19: every run of process_all_pages, for every max_pages and every
\* batch_size >= 1, also when every page request fails, ends by returning
\* its report.
C19_RunReturnsReport ==
    (ingest.pc \in {"while", "for"}) ~> (ingest.pc = "returned")

\* C20: when generate_embeddings_for_products is over, every product whose
\* image fetch or embedding generation failed was reported as an error and
\* has no row, and every other product of the list has a row with its
\* embedding.
C20_FailedProductsSkipped ==
    gen.pc \in {"returned", "raised"}
    => \A k \in 1..Len(gen.product_ids) :
          IF gen.embeddings[k].found
          THEN \E r \in 1..Len(gen.rows) :
                  /\ gen.rows[r].id = gen.product_ids[k]
                  /\ gen.rows[r].embedding = gen.embeddings[k]
          ELSE /\ gen.product_ids[k] \in Range(gen.errors)
               /\ \A r \in 1..Len(gen.rows) :
                     gen.rows[r].id = gen.product_ids[k]
                     => gen.rows[r].embedding.found

(***************************************************************************)
(* Failures inside a bulk request                                          *)
(***************************************************************************)
\* C21: when the bulk handler has ended after building work units, also when
\* the page fetch of one unit failed, its answer carries the ids of the tasks
\* it dispatched: the failure of one unit does not take the dispatched
\* siblings out of the report.
C21_UnitFailureKeepsSiblings ==
    (hpc \in {"returned", "raised"} /\ units # <<>>)
    => response.task_ids = task_ids

(***************************************************************************)
(* Properties of the single-item tasks                                     *)
(***************************************************************************)
\* whether a store holds vector v (as the store keeps it) for the id
HeldInFaiss(product_id, v) ==
    get_embedding(LoadedIndex, LoadedProductIds, product_id)
        = Embedding(Float32Vec(v))

HeldInRedis(product_id, v) == redis[product_id] = Embedding(v)

HeldInQdrant(product_id, v) == qdrant[product_id] = Embedding(Float32Vec(v))

\* C22: after generate_single_embedding_task has reported status completed
\* for an id, a vector store holds the generated embedding under the id, so
\* that a get of the id returns it.
C22_GeneratedIsStored ==
    (ret.op = "generate_single_embedding_task" /\ ret.result)
    => \/ HeldInFaiss(ret.ids[1], ret.embs[1])
       \/ HeldInRedis(ret.ids[1], ret.embs[1])
       \/ HeldInQdrant(ret.ids[1], ret.embs[1])

\* C23: after update_single_embedding_task has ended for a product that had
\* a stored vector and whose image can be fetched and embedded, every store
\* that holds a vector for the id holds the newly generated one: no stale
\* vector remains.
C23_UpdateLeavesNoStaleVector ==
    (/\ ret.op = "update_single_embedding_task"
     /\ ret.embs # <<>>
     /\ ret.existed > 0)
    => /\ redis[ret.ids[1]].found => HeldInRedis(ret.ids[1], ret.embs[1])
       /\ qdrant[ret.ids[1]].found => HeldInQdrant(ret.ids[1], ret.embs[1])
       /\ check_embedding(ret.ids[1]) => HeldInFaiss(ret.ids[1], ret.embs[1])

\* C24: every value ResNetEmbedder.get_embedding has returned to
\* generate_embeddings_for_products is a vector of length D: a failure is
\* raised, never returned as None.
C24_EmbedReturnsVectorOrRaises ==
    \A k \in 1..Len(gen.embeddings) :
        /\ gen.embeddings[k].found
        /\ Len(gen.embeddings[k].vector) = Dimension

(***************************************************************************)
(* Properties of the persistence of FAISSService                           *)
(***************************************************************************)
\* C25: when save_embedding, save_embeddings_batch or delete_embedding has
\* returned True, the change is on disk: index.faiss and product_ids.json
\* hold the index and the id list of the instance. A write that fails makes
\* the operation return False.
C25_TrueMeansWritten ==
    (/\ Quiet
     /\ ret.op \in {"save_embedding", "save_embeddings_batch", "delete_embedding"}
     /\ ret.result)
    => /\ index_file = File(index[ret.w])
       /\ ids_file = File(product_ids[ret.w])

\* C26: whenever no write is in progress, also after a worker died between
\* the two writes of save_index, the files hold as many vectors as product
\* ids, so that the next FAISSService loads a consistent pair.
C26_FilesConsistentAfterCrash ==
    Quiet => Len(LoadedIndex) = Len(LoadedProductIds)

\* C29: outside load_index, every FAISSService instance holds as many
\* product ids as vectors (position i of product_ids belongs to vector i),
\* whatever save, delete and load calls were made, failed ones included.
C29_IdsParallelToIndex ==
    \A w \in Workers :
        fpc[w] # "load_ids" => Len(product_ids[w]) = Len(index[w])

(***************************************************************************)
(* Properties of the response cache                                        *)
(***************************************************************************)
\* every cache entry is the response a successful request for the same url
\* received at its cache_time
C27_EntriesAreReceivedResponses ==
    \A url \in Urls :
        cache[url].cached
        => /\ cache[url].cache_data.url = url
           /\ cache[url].cache_data.received = cache[url].cache_time
           /\ cache[url].cache_time <= now

\* a run of _make_request that returns data returns a response for its own
\* url received less than the TTL ago; a response older than now came from
\* the cache and was returned without a request; a run that fails leaves the
\* cache as it was
C27_ReturnsFreshOrFetches ==
    /\ (request.pc = "make_request" /\ request'.made = "returned")
       => /\ request'.data.url = request.url
          /\ now - request'.data.received < CacheTtl
          /\ (request'.data.received < now
              => (sent' = sent /\ cache' = cache))
          /\ (sent' = sent
              => request'.data = cache[request.url].cache_data)
    /\ (request.pc = "make_request" /\ request'.failures > request.failures)
       => cache' = cache

\* C27: the cache answers a url only with the response a successful request
\* for the same url stored less than the TTL ago, and then without an
\* upstream request; failed requests are never cached.
C27_CacheServesFreshSuccesses ==
    []C27_EntriesAreReceivedResponses /\ [][C27_ReturnsFreshOrFetches]_vars

\* a call answered from the cache without any request, by a response
\* received earlier, while another url still has an expired entry
C27_Witness ==
    /\ request.made = "returned"
    /\ sent = 0
    /\ request.data.received < now
    /\ \E url \in Urls : cache[url].cached /\ now - cache[url].cache_time >= CacheTtl

(***************************************************************************)
(* Properties of process_all_pages                                         *)
(***************************************************************************)
\* C28: once the soft time limit has fired in a bulk task, the run processes
\* no page beyond the one in flight and does not end without a report: it
\* is neither aborted by the exception nor left running until it is killed.
C28_SoftLimitWindsDown ==
    soft_limit.fired
    => /\ PagesDone(ingest) <= soft_limit.pages_done + 1
       /\ ingest.pc \notin {"raised", "killed"}

\* C30: the page asked next never lies before start_page, and the report of
\* a run with max_pages given counts at most max_pages processed pages.
C30_PagesInOrderWithinMax ==
    /\ ingest.current_page >= ingest.start_page
    /\ (ingest.pc = "returned" /\ ingest.max_pages # None)
       => ingest.report.total_pages_processed <= ingest.max_pages

====
